---- MODULE Spec2Model ----
(***************************************************************************)
(* A model of node-cielo: CieloConnectionManager (connection lifecycle,    *)
(* reconnect policy, timers) over CieloAPIConnection (login, directory,    *)
(* WebSocket) and CieloHVAC (device state).                                *)
(*                                                                         *)
(* Spec    : the connection manager, its API objects, sockets and the      *)
(*           connect()/subscribeToHvacs() calls in flight.                 *)
(* DevSpec : one CieloAPIConnection with its devices, inbound frames and   *)
(*           outbound commands.                                            *)
(* SessSpec : the login and the token refresh of one CieloAPIConnection.   *)
(* SolveSpec : establishConnectionWithAutoSolve and the 2Captcha solver.   *)
(* NoRefreshSpec : the connection manager with disableTokenRefresh.        *)
(* LiveSpec : the connection manager when every request answers.           *)
(* OverlapSpec : overlapping subscribeToHVACs calls on one connection.     *)
(*                                                                         *)
(* JavaScript runs handlers to completion, so every action is one handler  *)
(* or one continuation of an async function (the code between two awaits). *)
(***************************************************************************)
EXTENDS Integers, Sequences, FiniteSets, TLC

VARIABLES
  mgr,      \* the CieloConnectionManager object (its fields, plus what it was observed to do)
  apis,     \* the CieloAPIConnection objects the manager created, in creation order
  socks,    \* the WebSocket objects created by #connect, in creation order
  calls,    \* the connect() / subscribeToHvacs() invocations that have not settled
  nCalls,   \* the number of invocations made so far
  settled,  \* observed: the invocation the last step settled, with its outcome
  dev,      \* DevSpec: one CieloAPIConnection (hvacs, #previousPowerStates, #ws, ...)
  out,      \* DevSpec: what that connection was observed to do (callbacks, frames sent)
  cap       \* SolveSpec: one establishConnectionWithAutoSolve call and its captcha solve

vars == <<mgr, apis, socks, calls, nCalls, settled, dev, out, cap>>
\* what the steps of one connection leave alone
mgrVars == <<mgr, apis, socks, calls, nCalls, settled, cap>>
\* what the steps of the manager leave alone
devVars == <<dev, out, cap>>

----------------------------------------------------------------------------
(* Bounds of the model *)

\* connect() / subscribeToHvacs() invocations explored
MaxCalls == 2
\* reconnectAttempts is unbounded in the code; the model stops scheduling above this
MaxAttempts == 3
\* subscribeToHVACs calls awaiting the directory at one time (DevSpec)
MaxPending == 1
\* #commandCount is unbounded in the code; the model stops sending above this (DevSpec)
MaxCommands == 2

----------------------------------------------------------------------------
(* Strings the code inspects are sequences of characters, so that          *)
(* String.prototype.includes is computed rather than assumed.              *)

Str_WebSocket == <<"W", "e", "b", "S", "o", "c", "k", "e", "t">>
Str_connection == <<"c", "o", "n", "n", "e", "c", "t", "i", "o", "n">>

\* Cielo.js:341  new Error("Connection Closed.")
ConnectionClosedMessage ==
  <<"C", "o", "n", "n", "e", "c", "t", "i", "o", "n", " ", "C", "l", "o", "s", "e", "d", ".">>

\* messages of 'error' events the ws library and the network stack raise
WsErrorMessages ==
  { <<"I", "n", "v", "a", "l", "i", "d", " ", "W", "e", "b", "S", "o", "c", "k", "e", "t", " ", "f", "r", "a", "m", "e">>,
    <<"r", "e", "a", "d", " ", "E", "C", "O", "N", "N", "R", "E", "S", "E", "T">> }

\* String.prototype.includes: case-sensitive substring search
includes(s, p) ==
  \E i \in 1..(Len(s) - Len(p) + 1) : SubSeq(s, i, i + Len(p) - 1) = p

Min(a, b) == IF a <= b THEN a ELSE b

----------------------------------------------------------------------------
(* CieloConnectionManager: options and constructor *)

AutoReconnectOptions == BOOLEAN
MacAddressesOptions == { {}, {"M1"} }
DisableTokenRefreshOptions == {FALSE}
MaxReconnectAttemptsOptions == {1}
ReconnectDelayOptions == {100000}

\* const maxDelay = 5 * 60 * 1000
maxDelay == 5 * 60 * 1000

constructor(autoReconnect, macAddresses, disableTokenRefresh, maxReconnectAttempts, reconnectDelay) ==
  [ macAddresses |-> macAddresses,
    api |-> 0,                         \* 0 is null, n > 0 is apis[n]
    isConnected |-> FALSE,
    reconnectAttempts |-> 0,
    maxReconnectAttempts |-> maxReconnectAttempts,
    reconnectDelay |-> reconnectDelay,
    tokenExpiresAt |-> "null",
    tokenRefreshTimer |-> FALSE,       \* FALSE is null, TRUE is a pending setTimeout
    healthCheckTimer |-> FALSE,        \* FALSE is null, TRUE is a running setInterval
    autoReconnect |-> autoReconnect,
    disableTokenRefresh |-> disableTokenRefresh,
    \* the event loop: pending setTimeout(() => this.connect(), actualDelay) timers
    reconnectTimers |-> 0,
    \* the event loop: the setInterval timers of startHealthCheck not cleared, and the
    \* setTimeout timers of scheduleTokenRefresh neither cleared nor run to their end
    intervals |-> 0,
    timeouts |-> 0,
    \* observed: the delays passed to the reconnect timer since the last successful connect()
    delays |-> <<>>,
    \* observed: the messages handed to the onError callback by the last step, in order
    onErrorCalls |-> <<>>,
    \* observed: a connect() failed with autoReconnect on and no attempt left,
    \* and the caller has not called connect() since
    exhausted |-> FALSE,
    \* observed: the caller called disconnect() and has not called connect() since
    released |-> FALSE ]

----------------------------------------------------------------------------
(* CieloConnectionManager: methods, as functions from the object to the object *)

scheduleReconnect(m) ==
  LET attempts == m.reconnectAttempts + 1
      delay == m.reconnectDelay * 2^(attempts - 1)
      actualDelay == Min(delay, maxDelay)
  IN [m EXCEPT !.reconnectAttempts = attempts,
               !.reconnectTimers = @ + 1,
               !.delays = Append(@, actualDelay)]

handleError(m, message) ==
  LET m1 == IF includes(message, Str_WebSocket) \/ includes(message, Str_connection)
            THEN LET m0 == [m EXCEPT !.isConnected = FALSE]
                 IN IF m0.autoReconnect THEN scheduleReconnect(m0) ELSE m0
            ELSE m
  IN [m1 EXCEPT !.onErrorCalls = Append(@, message)]

\* lines 208-213: clearInterval on the handle the field holds, if it holds one
stopHealthCheck(m) ==
  IF m.healthCheckTimer
  THEN [m EXCEPT !.healthCheckTimer = FALSE, !.intervals = @ - 1]
  ELSE m

\* a variant of startHealthCheck without the stopHealthCheck() of line 188
startHealthCheckKeepsOld(m) ==
  [m EXCEPT !.healthCheckTimer = TRUE, !.intervals = @ + 1]

\* lines 187-203: the old interval is cleared, a new one is set
startHealthCheck(m) ==
  [stopHealthCheck(m) EXCEPT !.healthCheckTimer = TRUE, !.intervals = @ + 1]

\* the callback of setInterval in startHealthCheck
healthCheckTick(m) ==
  IF ~m.isConnected
  THEN LET m1 == stopHealthCheck(m)
       IN IF m1.autoReconnect THEN scheduleReconnect(m1) ELSE m1
  ELSE m

\* lines 262-267: clearTimeout on the handle the field holds, if it holds one
stopTokenRefresh(m) ==
  IF m.tokenRefreshTimer
  THEN [m EXCEPT !.tokenRefreshTimer = FALSE, !.timeouts = @ - 1]
  ELSE m

\* a variant of scheduleTokenRefresh without the test of disableTokenRefresh (the
\* method as it was before the option was added)
scheduleTokenRefreshAlways(m) ==
  LET m1 == stopTokenRefresh(m)
  IN IF m1.tokenExpiresAt \in {"null", "NaN"} THEN m1
     ELSE IF m1.tokenExpiresAt = "withinMargin"
          THEN (IF m1.autoReconnect THEN scheduleReconnect(m1) ELSE m1)
          ELSE [m1 EXCEPT !.tokenRefreshTimer = TRUE, !.timeouts = @ + 1]

\* tokenExpiresAt is kept as what scheduleTokenRefresh decides on:
\*   "null" / "NaN"  : !this.tokenExpiresAt
\*   "withinMargin"  : tokenExpiresAt - Date.now() - refreshBeforeExpiry <= 0
\*   "beyondMargin"  : otherwise
scheduleTokenRefresh(m) ==
  LET m1 == stopTokenRefresh(m)
  IN IF m1.disableTokenRefresh THEN m1
     ELSE IF m1.tokenExpiresAt \in {"null", "NaN"} THEN m1
     ELSE IF m1.tokenExpiresAt = "withinMargin"
          THEN (IF m1.autoReconnect THEN scheduleReconnect(m1) ELSE m1)
          ELSE [m1 EXCEPT !.tokenRefreshTimer = TRUE, !.timeouts = @ + 1]

disconnect(m) ==
  [stopTokenRefresh(stopHealthCheck(m)) EXCEPT !.isConnected = FALSE, !.api = 0]

\* connect(), lines 72-74: "Mark as connected"
markConnected(m) == [m EXCEPT !.isConnected = TRUE, !.reconnectAttempts = 0]

\* connect(), line 77: this.api.getExpiresIn() * 1000 (undefined * 1000 is NaN)
expiresInMs(expiresIn) == IF expiresIn = "undefined" THEN "NaN" ELSE expiresIn

\* connect(), lines 76-84, entered with this.api non-null
startMonitoring(m, expiresIn) ==
  scheduleTokenRefresh(startHealthCheck([m EXCEPT !.tokenExpiresAt = expiresInMs(expiresIn)]))

\* a variant of line 68 that subscribes only with more than one address configured
hasMacAddressesOffByOne(m) == Cardinality(m.macAddresses) > 1

\* connect(), the condition of line 68: this.macAddresses.length > 0
hasMacAddresses(m) == m.macAddresses # {}

\* a variant of line 92 without the test of reconnectAttempts
willRetryUnbounded(m) == m.autoReconnect

\* connect(), the condition of line 92
willRetry(m) == m.autoReconnect /\ m.reconnectAttempts < m.maxReconnectAttempts

\* connect(), the catch block: lines 88-97
connectCatch(m) ==
  LET m1 == [m EXCEPT !.isConnected = FALSE]
  IN IF willRetry(m1) THEN scheduleReconnect(m1)
     ELSE [m1 EXCEPT !.exhausted = m1.autoReconnect]

----------------------------------------------------------------------------
(* Objects *)

\* new CieloAPIConnection(...): no session, no socket, this.hvacs = []. Of hvacs the
\* manager model keeps the MAC addresses of the devices (DevSpec has the devices).
NewApi == [loggedIn |-> FALSE, expiresIn |-> "undefined", ws |-> 0, hvacs |-> {}]

\* the MAC addresses GET /web/devices lists for the account
ListedMacs == {"M1", "M2"}

\* Cielo.js:87-120: the directory entries a subscribeToHVACs(macAddresses) call pushes
selectedMacs(macAddresses) ==
  IF macAddresses = {} THEN ListedMacs ELSE ListedMacs \cap macAddresses

\* what the login response's expiresIn amounts to when connect() later reads it
ExpiresInOptions == {"withinMargin", "beyondMargin"}

NewCall(kind, pc, a, sub, macs) ==
  [ id |-> nCalls + 1,
    kind |-> kind,          \* "connect" or "subscribe"
    pc |-> pc,              \* the await the call is suspended at: "establish", "dir", "open"
    capApi |-> a,           \* the api object establishConnectionWithAutoSolve runs on
    subApi |-> sub,         \* the api object subscribeToHVACs runs on
    authed |-> FALSE,       \* #getDeviceInfo was sent with an access token
    sock |-> 0,             \* the socket whose 'open' the call awaits
    macs |-> macs ]         \* the macAddresses argument of subscribeToHVACs

NoCall == [id |-> 0]

\* how establishConnectionWithAutoSolve settles: the stage that threw, or "ok"
EstablishOutcomes == {"ok", "solve", "login"}

\* the record left in `settled` when call c settles
Outcome(c, result, failed) ==
  [ id |-> c.id, kind |-> c.kind,
    result |-> result,      \* "connected", "subscribed", "swallowed" (resolved by the catch
                            \* block, with undefined) or "rejected"
    failed |-> failed,      \* the stage that failed: "none", "solve", "login", "directory",
                            \* "TypeError"
    sock |-> c.sock ]

\* sockets created and not closed
LiveSockets == {s \in 1..Len(socks) : socks[s] \in {"connecting", "open"}}

\* An api object that neither this.api nor a suspended call refers to is garbage:
\* its fields can no longer be read, and the model forgets them.
Referenced(a, m, cs) == m.api = a \/ \E c \in cs : c.capApi = a \/ c.subApi = a
Collect(as, m, cs) ==
  [a \in 1..Len(as) |-> IF Referenced(a, m, cs) THEN as[a] ELSE NewApi]

\* the manager object as a handler finds it: nothing handed to onError yet
Entered == [mgr EXCEPT !.onErrorCalls = <<>>]

----------------------------------------------------------------------------
(* Continuations of connect() *)

\* lines 51-65: a new api object replaces this.api, then the solver is awaited
ConnectBegin(m) ==
  /\ nCalls < MaxCalls
  /\ mgr' = [m EXCEPT !.api = Len(apis) + 1]
  /\ calls' = calls \cup {NewCall("connect", "establish", Len(apis) + 1, 0, {})}
  /\ apis' = Collect(Append(apis, NewApi), mgr', calls')
  /\ nCalls' = nCalls + 1
  /\ settled' = NoCall
  /\ UNCHANGED socks

\* the catch block, entered from call c with manager m
ConnectFail(m, c, stage) ==
  /\ mgr' = connectCatch(m)
  /\ calls' = calls \ {c}
  /\ settled' = Outcome(c, IF willRetry([m EXCEPT !.isConnected = FALSE])
                           THEN "swallowed" ELSE "rejected", stage)

\* lines 72-86, after the awaits
ConnectFinish(m, c, as) ==
  LET m1 == markConnected(m)
  IN IF m1.api = 0
     THEN ConnectFail(m1, c, "TypeError")        \* this.api is null at line 77
     ELSE /\ mgr' = startMonitoring([m1 EXCEPT !.delays = <<>>], as[m1.api].expiresIn)
          /\ calls' = calls \ {c}
          /\ settled' = Outcome(c, "connected", "none")

----------------------------------------------------------------------------
(* Actions of Spec *)

CallerConnect ==
  /\ ConnectBegin([Entered EXCEPT !.exhausted = FALSE, !.released = FALSE])
  /\ UNCHANGED devVars

CallerDisconnect ==
  /\ mgr' = [disconnect(Entered) EXCEPT !.released = TRUE]
  /\ settled' = NoCall
  /\ apis' = Collect(apis, mgr', calls)
  /\ UNCHANGED <<socks, calls, nCalls, devVars>>

\* establishConnectionWithAutoSolve settles (Cielo.js:264-277, awaited at line 61 of
\* connect()): the solver failed, the login failed, or the login stored the session in
\* the api object it was called on; then connect() runs to its next await
EstablishDone(c, outcome, expiresIn) ==
  /\ c.pc = "establish"
  /\ IF outcome # "ok"
     THEN /\ ConnectFail(Entered, c, outcome)
          /\ apis' = Collect(apis, mgr', calls')
     ELSE LET stored == [apis EXCEPT ![c.capApi].loggedIn = TRUE,
                                     ![c.capApi].expiresIn = expiresIn]
              \* subscribeToHVACs, Cielo.js:76-77: this.hvacs = []
              cleared == IF hasMacAddresses(mgr) /\ mgr.api # 0
                         THEN [stored EXCEPT ![mgr.api].hvacs = {}] ELSE stored
          IN /\ IF hasMacAddresses(mgr)
                THEN IF mgr.api = 0
                     THEN ConnectFail(Entered, c, "TypeError")   \* this.api is null at line 69
                     ELSE /\ calls' = (calls \ {c}) \cup
                                      {[c EXCEPT !.pc = "dir", !.capApi = 0,
                                                 !.subApi = mgr.api,
                                                 !.macs = mgr.macAddresses,
                                                 !.authed = stored[mgr.api].loggedIn]}
                          /\ mgr' = Entered
                          /\ settled' = NoCall
                ELSE ConnectFinish(Entered, c, stored)
             /\ apis' = Collect(cleared, mgr', calls')
  /\ UNCHANGED <<socks, nCalls, devVars>>

\* #getDeviceInfo settles inside subscribeToHVACs (Cielo.js:83-123); on success #connect
\* creates the WebSocket and the call awaits its 'open'
DirDone(c, ok) ==
  /\ c.pc = "dir"
  /\ IF ok
     THEN /\ c.authed                      \* the backend lists devices for a session only
          /\ socks' = Append(socks, "connecting")
          /\ calls' = (calls \ {c}) \cup
                      {[c EXCEPT !.pc = "open", !.subApi = 0, !.sock = Len(socks) + 1]}
          /\ mgr' = Entered
          /\ settled' = NoCall
          /\ apis' = Collect([apis EXCEPT ![c.subApi].ws = Len(socks) + 1,
                                            ![c.subApi].hvacs = @ \cup selectedMacs(c.macs)],
                              mgr', calls')
     ELSE /\ IF c.kind = "connect"
             THEN ConnectFail(Entered, c, "directory")
             ELSE /\ calls' = calls \ {c}
                  /\ settled' = Outcome(c, "rejected", "directory")
                  /\ mgr' = Entered
          /\ apis' = Collect(apis, mgr', calls')
          /\ UNCHANGED socks
  /\ UNCHANGED <<nCalls, devVars>>

\* the WebSocket emits 'open' (Cielo.js:328-330, 414-418): the awaiting call continues
SocketOpen(s) ==
  /\ socks[s] = "connecting"
  /\ socks' = [socks EXCEPT ![s] = "open"]
  /\ LET waiting == {c \in calls : c.pc = "open" /\ c.sock = s}
     IN IF waiting = {}
        THEN /\ mgr' = Entered
             /\ settled' = NoCall
             /\ UNCHANGED calls
        ELSE LET c == CHOOSE x \in waiting : TRUE
             IN IF c.kind = "connect"
                THEN ConnectFinish(Entered, c, apis)
                ELSE \* CieloConnectionManager.subscribeToHvacs, line 145
                     /\ mgr' = [Entered EXCEPT !.macAddresses = @ \cup c.macs]
                     /\ calls' = calls \ {c}
                     /\ settled' = Outcome(c, "subscribed", "none")
  /\ apis' = Collect(apis, mgr', calls')
  /\ UNCHANGED <<nCalls, devVars>>

\* the WebSocket emits 'error' (Cielo.js:333-336 and 409-411): both listeners call
\* #errorCallback, which is (err) => this.handleError(err) of the manager
SocketError(s, message) ==
  /\ socks[s] \in {"connecting", "open"}
  /\ socks' = [socks EXCEPT ![s] = "errored"]
  /\ mgr' = handleError(handleError(Entered, message), message)
  /\ mgr'.reconnectAttempts <= MaxAttempts
  /\ settled' = NoCall
  /\ UNCHANGED <<apis, calls, nCalls, devVars>>

\* the WebSocket emits 'close' (Cielo.js:340-342)
SocketClose(s) ==
  /\ socks[s] \in {"open", "errored"}
  /\ socks' = [socks EXCEPT ![s] = "closed"]
  /\ mgr' = handleError(Entered, ConnectionClosedMessage)
  /\ mgr'.reconnectAttempts <= MaxAttempts
  /\ settled' = NoCall
  /\ UNCHANGED <<apis, calls, nCalls, devVars>>

\* a setTimeout of scheduleReconnect fires (lines 179-181)
ReconnectTimerFire ==
  /\ mgr.reconnectTimers > 0
  /\ ConnectBegin([Entered EXCEPT !.reconnectTimers = @ - 1])
  /\ UNCHANGED devVars

\* the setInterval of startHealthCheck fires (lines 190-202)
HealthCheckTick ==
  /\ mgr.healthCheckTimer
  /\ mgr' = healthCheckTick(Entered)
  /\ mgr'.reconnectAttempts <= MaxAttempts
  /\ settled' = NoCall
  /\ UNCHANGED <<apis, socks, calls, nCalls, devVars>>

\* the setTimeout of scheduleTokenRefresh fires (lines 252-256)
TokenRefreshFire ==
  /\ mgr.tokenRefreshTimer
  /\ ConnectBegin(disconnect(Entered))
  /\ UNCHANGED devVars

\* CieloConnectionManager.subscribeToHvacs (lines 143-146) up to its first await;
\* getApi() throws unless isConnected and api are set
CallerSubscribe(macs) ==
  /\ mgr.isConnected /\ mgr.api # 0
  /\ nCalls < MaxCalls
  /\ calls' = calls \cup {[NewCall("subscribe", "dir", 0, mgr.api, macs)
                            EXCEPT !.authed = apis[mgr.api].loggedIn]}
  /\ nCalls' = nCalls + 1
  /\ mgr' = Entered
  /\ settled' = NoCall
  /\ apis' = [apis EXCEPT ![mgr.api].hvacs = {}]    \* Cielo.js:76-77
  /\ UNCHANGED <<socks, devVars>>

----------------------------------------------------------------------------
(* JavaScript values and objects, for the device state and the frames.     *)
(* A value carries its type; an object is a function from its property     *)
(* names to values, and a property it lacks reads as undefined.            *)

Undefined == [type |-> "undefined", val |-> ""]
Str(s) == [type |-> "string", val |-> s]
Num(s) == [type |-> "number", val |-> s]       \* val is the decimal numeral

IsObject(x) == "type" \notin DOMAIN x
Get(o, k) == IF IsObject(o) /\ k \in DOMAIN o THEN o[k] ELSE Undefined

\* ToBoolean: undefined, "" and 0 are falsy; an object is truthy
Truthy(x) == IsObject(x) \/ (x.type # "undefined" /\ x.val # "" /\ x # Num("0"))

\* MAC addresses, as sequences of characters
MacA == <<"a", "1">>
MacB == <<"b", "2">>
MacX == <<"c", "3">>
\* the address of MacA as another boundary writes it: in upper case
MacAUpper == <<"A", "1">>

\* String.prototype.toUpperCase, over the characters addresses are made of
upperChar(c) ==
  CASE c = "a" -> "A" [] c = "b" -> "B" [] c = "c" -> "C" [] OTHER -> c
toUpperCase(s) == [k \in DOMAIN s |-> upperChar(s[k])]

----------------------------------------------------------------------------
(* CieloHVAC *)

DEFAULT_POWER == Str("off")
DEFAULT_MODE == Str("auto")
DEFAULT_FAN == Str("auto")
DEFAULT_TEMPERATURE == Num("75")

\* new CieloHVAC(macAddress, ...): the field initialisers of lines 756-765
NewHVAC(macAddress) ==
  [ macAddress |-> macAddress,
    power |-> DEFAULT_POWER,
    temperature |-> DEFAULT_TEMPERATURE,
    mode |-> DEFAULT_MODE,
    fanSpeed |-> DEFAULT_FAN,
    roomTemperature |-> DEFAULT_TEMPERATURE ]

updateState(hvac, power, temperature, mode, fanSpeed) ==
  [hvac EXCEPT !.power = power, !.temperature = temperature,
               !.mode = mode, !.fanSpeed = fanSpeed]

updateRoomTemperature(hvac, roomTemperature) ==
  [hvac EXCEPT !.roomTemperature = roomTemperature]

\* the four fields of commandState
commandState(hvac) ==
  [power |-> hvac.power, mode |-> hvac.mode, fanSpeed |-> hvac.fanSpeed,
   temperature |-> hvac.temperature]

----------------------------------------------------------------------------
(* CieloAPIConnection: the device directory and subscribeToHVACs *)

DirEntry(mac, power, temp, mode, fanspeed, envTemp) ==
  [ macAddress |-> mac,
    latestAction |-> [power |-> Str(power), temp |-> Str(temp), mode |-> Str(mode),
                      fanspeed |-> Str(fanspeed)],
    latEnv |-> [temp |-> Num(envTemp)] ]

\* data.listDevices of the responses of GET /web/devices
DirectoryOptions ==
  { << DirEntry(MacA, "off", "70", "auto", "auto", "68"),
       DirEntry(MacB, "on", "72", "cool", "low", "75") >> }

\* the macAddresses arguments callers pass
FilterOptions == { <<>>, <<MacA>>, <<MacAUpper>> }

\* Array.prototype.includes
arrayIncludes(arr, x) == \E i \in 1..Len(arr) : arr[i] = x

\* Cielo.js:104-117: the device built from one directory entry
seed(device) ==
  updateRoomTemperature(
    updateState(NewHVAC(device.macAddress),
                device.latestAction.power, device.latestAction.temp,
                device.latestAction.mode, device.latestAction.fanspeed),
    device.latEnv.temp)

\* Cielo.js:88-120: the for loop pushing onto this.hvacs
RECURSIVE pushSelected(_, _, _)
pushSelected(hvacs, listDevices, macAddresses) ==
  IF listDevices = <<>> THEN hvacs
  ELSE LET device == Head(listDevices)
           subscribeToAll == Len(macAddresses) = 0
       IN pushSelected(
            IF subscribeToAll \/ arrayIncludes(macAddresses, device.macAddress)
            THEN Append(hvacs, seed(device)) ELSE hvacs,
            Tail(listDevices), macAddresses)

\* new CieloAPIConnection(...), as far as devices and commands go. ws is the socket
\* #connect created last; DevSpec follows the frames and the writes of that socket.
DevIdle ==
  [ hvacs |-> <<>>,
    commandCount |-> 0,
    previousPowerStates |-> <<>>,  \* an object keyed by MAC address; <<>> is {}
    ws |-> "none",                 \* this.#ws: "none" (undefined), "connecting", "open", "closed"
    pending |-> <<>>,              \* the macAddresses of the subscribeToHVACs calls awaiting
                                   \* #getDeviceInfo
    opening |-> <<>>,              \* the subscribeToHVACs call awaiting the 'open' of ws: its
                                   \* macAddresses and the listDevices it was answered
    sessionID |-> Undefined,       \* the private fields of the session, undefined until
    userID |-> Undefined,          \* establishConnection or refreshAccessToken stores them
    accessToken |-> Undefined,
    refreshToken |-> Undefined,
    expiresIn |-> Undefined ]

\* observed, of the last step: frames the message listener was run on, callbacks
\* raised, the device sendCommand was called with (its index in hvacs, 0 for none),
\* the frame written and how the promise settled; the authentication method called
\* ("establishConnection", "refreshAccessToken"), how its promise settled and the
\* message of the Error it rejected with, as the pieces it is concatenated from
OutIdle ==
  [ messages |-> 0, commandCallbacks |-> 0, temperatureCallbacks |-> 0,
    hvac |-> 0, sent |-> Undefined, sendResult |-> "none",
    auth |-> "none", authResult |-> "none", authError |-> <<>> ]

\* subscribeToHVACs (Cielo.js:75-83) up to the await of #getDeviceInfo
SubscribeBegin(macAddresses) ==
  /\ Len(dev.pending) < MaxPending
  /\ dev' = [dev EXCEPT !.hvacs = <<>>, !.commandCount = 0,
                        !.pending = Append(@, macAddresses)]
  /\ out' = OutIdle
  /\ UNCHANGED mgrVars

RemoveAt(seq, i) == SubSeq(seq, 1, i - 1) \o SubSeq(seq, i + 1, Len(seq))

\* subscribeToHVACs after the await (Cielo.js:86-123), then #connect (lines 307-325):
\* the devices are pushed and a new WebSocket replaces this.#ws
SubscribeDirDone(p, ok, listDevices) ==
  /\ IF ok
     THEN dev' = [dev EXCEPT !.hvacs = pushSelected(@, listDevices, dev.pending[p]),
                             !.ws = "connecting",
                             !.opening = <<dev.pending[p], listDevices>>,
                             !.pending = RemoveAt(@, p)]
     ELSE dev' = [dev EXCEPT !.pending = RemoveAt(@, p)]
  /\ out' = OutIdle
  /\ UNCHANGED mgrVars

WsOpen ==
  /\ dev.ws = "connecting"
  /\ dev' = [dev EXCEPT !.ws = "open", !.opening = <<>>]
  /\ out' = OutIdle
  /\ UNCHANGED mgrVars

WsClose ==
  /\ dev.ws \in {"connecting", "open"}
  /\ dev' = [dev EXCEPT !.ws = "closed", !.opening = <<>>]
  /\ out' = OutIdle
  /\ UNCHANGED mgrVars

----------------------------------------------------------------------------
(* CieloAPIConnection: inbound frames (the 'message' listener, lines 345-406) *)

MessageTypeOptions == {Str("StateUpdate"), Str("Heartbeat"), Undefined}
FullAction ==
  [power |-> Str("off"), temp |-> Str("72"), mode |-> Str("cool"), fanspeed |-> Str("low")]
ActionOptions ==
  { Undefined,
    [power |-> Str("on")],
    FullAction }
LatEnvVarOptions ==
  { Undefined, [temperature |-> Num("71")], [temperature |-> Num("0")],
    [humidity |-> Num("40")] }

\* the parsed frames the socket delivers: every StateUpdate for device a1 over the
\* options above, one for an address no device has, one for a1 written in upper case,
\* and frames of another or of no message_type
Frame(t, mac, a, e) ==
  [message_type |-> t, mac_address |-> mac, action |-> a, lat_env_var |-> e]

Frames ==
  { Frame(Str("StateUpdate"), MacA, a, e) : a \in ActionOptions, e \in LatEnvVarOptions }
  \cup { Frame(Str("StateUpdate"), mac, FullAction, [temperature |-> Num("71")]) :
           mac \in {MacX, MacAUpper} }
  \cup { Frame(t, MacA, FullAction, [temperature |-> Num("71")]) :
           t \in MessageTypeOptions \ {Str("StateUpdate")} }

\* a variant without the test of line 366: every typed frame with an action object
\* is taken for a state update
isStateUpdateAnyType(data) ==
  /\ Truthy(data.message_type) /\ data.message_type.type = "string"
  /\ Truthy(data.action) /\ IsObject(data.action)

\* lines 354-360 and 366
isStateUpdate(data) ==
  /\ Truthy(data.message_type) /\ data.message_type.type = "string"
  /\ Truthy(data.action) /\ IsObject(data.action)
  /\ data.message_type = Str("StateUpdate")

\* lines 370-388: what the forEach body does to a device whose MAC matches
applyFrame(hvac, data) ==
  LET status == data.action
      h1 == updateState(hvac, Get(status, "power"), Get(status, "temp"),
                        Get(status, "mode"), Get(status, "fanspeed"))
  IN IF Truthy(data.lat_env_var) /\ Get(data.lat_env_var, "temperature") # Undefined
     THEN updateRoomTemperature(h1, Get(data.lat_env_var, "temperature"))
     ELSE h1

\* obj[key] = value
setProperty(obj, key, value) ==
  [k \in DOMAIN obj \cup {key} |-> IF k = key THEN value ELSE obj[k]]

onMessage(d, data) ==
  IF ~isStateUpdate(data) THEN d
  ELSE [d EXCEPT
         !.hvacs = [i \in 1..Len(d.hvacs) |->
                      IF d.hvacs[i].macAddress = data.mac_address
                      THEN applyFrame(d.hvacs[i], data) ELSE d.hvacs[i]],
         !.previousPowerStates =
            IF \E i \in 1..Len(d.hvacs) : d.hvacs[i].macAddress = data.mac_address
            THEN setProperty(@, data.mac_address, Get(data.action, "power"))
            ELSE @]

OnMessage(data) ==
  /\ dev.ws = "open"
  /\ dev' = onMessage(dev, data)
  /\ out' = [OutIdle EXCEPT
       !.messages = 1,
       !.commandCallbacks = IF isStateUpdate(data) THEN 1 ELSE 0,
       !.temperatureCallbacks =
          IF isStateUpdate(data) /\ Truthy(data.lat_env_var)
             /\ Truthy(Get(data.lat_env_var, "temperature"))
          THEN 1 ELSE 0]
  /\ UNCHANGED mgrVars

----------------------------------------------------------------------------
(* CieloAPIConnection: outbound commands *)

\* String(value)
String(v) == [type |-> "string", val |-> v.val]

\* a variant of #buildCommand that puts only a commanded mode or temperature into
\* the actions object (the state of the code before its "Power/fanspeed in actions
\* object" fix)
buildCommandModeTempOnly(temp, power, fanspeed, mode, isAction, performedAction, performedValue) ==
  LET tempValue == IF isAction /\ performedAction = "temp" THEN String(performedValue) ELSE temp
  IN [ power |-> power,
       mode |-> IF isAction /\ performedAction = "mode" THEN performedValue ELSE mode,
       fanspeed |-> fanspeed,
       temp |-> tempValue,
       swing |-> Str("adjust"),
       swinginternal |-> Str(""),
       turbo |-> Str("off"),
       light |-> Str("on/off"),
       followme |-> Str("off") ]

\* #buildCommand (lines 650-673)
buildCommand(temp, power, fanspeed, mode, isAction, performedAction, performedValue) ==
  LET tempValue == IF isAction /\ performedAction = "temp" THEN String(performedValue) ELSE temp
  IN [ power |-> IF isAction /\ performedAction = "power" THEN performedValue ELSE power,
       mode |-> IF isAction /\ performedAction = "mode" THEN performedValue ELSE mode,
       fanspeed |-> IF isAction /\ performedAction = "fanspeed" THEN performedValue ELSE fanspeed,
       temp |-> tempValue,
       swing |-> Str("adjust"),
       swinginternal |-> Str(""),
       turbo |-> Str("off"),
       light |-> Str("on/off"),
       followme |-> Str("off") ]

\* #buildCommandPayload, line 688: this.#previousPowerStates[macAddress] || "off"
oldPowerOf(d, macAddress) ==
  IF macAddress \in DOMAIN d.previousPowerStates /\ Truthy(d.previousPowerStates[macAddress])
  THEN d.previousPowerStates[macAddress] ELSE Str("off")

\* JSON.stringify of an object, as the receiver parses it: a property whose value is
\* undefined is left out
stringify(obj) == [k \in {x \in DOMAIN obj : obj[x] # Undefined} |-> obj[k]]

\* #buildCommandPayload: the payload (the fields that vary; ts is left out)
buildCommandPayload(d, hvac, performedAction, performedActionValue) ==
  [ macAddress |-> hvac.macAddress,
    actionType |-> performedAction,
    actionValue |-> performedActionValue,
    oldPower |-> oldPowerOf(d, hvac.macAddress),
    actions |-> stringify(buildCommand(hvac.temperature, hvac.power, hvac.fanSpeed,
                                       hvac.mode, TRUE, performedAction,
                                       performedActionValue)) ]

\* a variant of lines 691-693 that records the value of every command, not only of
\* power commands
afterBuildTracksEveryAction(d, hvac, performedAction, performedActionValue) ==
  [d EXCEPT !.commandCount = @ + 1,
            !.previousPowerStates = setProperty(@, hvac.macAddress, performedActionValue)]

\* #buildCommandPayload: what it does to the connection (lines 684, 691-693)
afterBuild(d, hvac, performedAction, performedActionValue) ==
  [d EXCEPT !.commandCount = @ + 1,
            !.previousPowerStates =
               IF performedAction = "power"
               THEN setProperty(@, hvac.macAddress, performedActionValue) ELSE @]

\* a variant of sendCommand that also writes the commanded power into the device
sendCommandOptimistic(d, i, performedAction, performedActionValue) ==
  LET d1 == afterBuild(d, d.hvacs[i], performedAction, performedActionValue)
  IN IF performedAction = "power"
     THEN [d1 EXCEPT !.hvacs[i].power = performedActionValue]
     ELSE d1

\* sendCommand (lines 734-752): what it does to the connection and its devices
sendCommand(d, i, performedAction, performedActionValue) ==
  afterBuild(d, d.hvacs[i], performedAction, performedActionValue)

\* the commands of powerOn, powerOff, setMode, setFanSpeed and setTemperature
CommandOptions ==
  { <<"power", Str("on")>>, <<"power", Str("off")>>, <<"mode", Str("heat")>>,
    <<"fanspeed", Str("high")>>, <<"temp", Num("74")>> }

\* sendCommand, lines 743-751: ws.send calls back without an error when the write to
\* an open socket completed (writeOk) and with an error when it failed or the socket
\* is closed; on a socket that is connecting it throws inside the promise executor,
\* and with no socket this.#ws.send is a TypeError: the promise rejects in each case
\* a variant in which a socket that is still connecting takes the frame
writtenWhileConnecting(d, writeOk) == d.ws \in {"connecting", "open"} /\ writeOk

written(d, writeOk) == d.ws = "open" /\ writeOk

SendCommand(i, performedAction, performedActionValue, writeOk) ==
  /\ i \in 1..Len(dev.hvacs)
  /\ dev.commandCount < MaxCommands
  /\ dev' = sendCommand(dev, i, performedAction, performedActionValue)
  /\ out' = [OutIdle EXCEPT
       !.hvac = i,
       !.sent = IF written(dev, writeOk)
                THEN buildCommandPayload(dev, dev.hvacs[i], performedAction,
                                         performedActionValue)
                ELSE Undefined,
       !.sendResult = IF written(dev, writeOk) THEN "resolved" ELSE "rejected"]
  /\ UNCHANGED mgrVars

----------------------------------------------------------------------------
(* DevSpec: one CieloAPIConnection and its devices *)

\* no establishConnectionWithAutoSolve call has been made. The clock now is in
\* milliseconds since the call; the counters are what the call was observed to do.
CapIdle ==
  [ pc |-> "idle",            \* the await the call is suspended at: "submit", "poll" (a fetch
                              \* of fetchWithRetry), "submitBackoff", "pollBackoff" (its retry
                              \* delay), "firstWait", "pollWait" (the timers of solve2Captcha),
                              \* "login" (establishConnection), or "done"
    pollingInterval |-> 0, timeout |-> 0,
    now |-> 0,
    startTime |-> 0,
    attempt |-> 0,            \* fetchWithRetry: attempt
    attempts |-> 0,           \* solve2Captcha: attempts, the polls started
    submitRequests |-> 0,     \* fetches of the submit URL
    pollRequests |-> 0,       \* fetches of the result URL
    pollDelays |-> 0,         \* polling-interval timers waited for
    logins |-> 0,             \* establishConnection calls
    captchaToken |-> Undefined,
    last |-> "none",          \* the last answer: "token", "notReady", "error" (a response),
                              \* "network", "failure" (fetch threw), "refused" (submission)
    result |-> "none",        \* "resolved" or "rejected"
    error |-> <<>> ]          \* the message of the Error rejected with, in pieces

DevInit ==
  /\ mgr = constructor(TRUE, {}, FALSE, 1, 100000)
  /\ apis = <<>>
  /\ socks = <<>>
  /\ calls = {}
  /\ nCalls = 0
  /\ settled = NoCall
  /\ dev = DevIdle
  /\ out = OutIdle
  /\ cap = CapIdle

DevNext ==
  \/ \E macAddresses \in FilterOptions : SubscribeBegin(macAddresses)
  \/ \E p \in 1..Len(dev.pending), ok \in BOOLEAN, listDevices \in DirectoryOptions :
       SubscribeDirDone(p, ok, listDevices)
  \/ WsOpen
  \/ WsClose
  \/ \E data \in Frames : OnMessage(data)
  \/ \E i \in 1..Len(dev.hvacs), cmd \in CommandOptions, writeOk \in BOOLEAN :
       SendCommand(i, cmd[1], cmd[2], writeOk)

DevSpec == DevInit /\ [][DevNext]_vars

----------------------------------------------------------------------------
(* OverlapSpec: subscribeToHVACs calls that overlap on one CieloAPIConnection *)

\* subscribeToHVACs (Cielo.js:75-83) called while an earlier call still awaits
\* #getDeviceInfo: nothing in the method waits for the earlier call
SubscribeOverlapping(macAddresses) ==
  /\ 0 < Len(dev.pending) /\ Len(dev.pending) <= MaxPending
  /\ dev' = [dev EXCEPT !.hvacs = <<>>, !.commandCount = 0,
                        !.pending = Append(@, macAddresses)]
  /\ out' = OutIdle
  /\ UNCHANGED mgrVars

OverlapNext ==
  \/ \E macAddresses \in FilterOptions : SubscribeBegin(macAddresses)
  \/ \E macAddresses \in FilterOptions : SubscribeOverlapping(macAddresses)
  \/ \E p \in 1..Len(dev.pending), ok \in BOOLEAN, listDevices \in DirectoryOptions :
       SubscribeDirDone(p, ok, listDevices)
  \/ WsOpen
  \/ WsClose

OverlapSpec == DevInit /\ [][OverlapNext]_vars

----------------------------------------------------------------------------
(* SessSpec: the session of one CieloAPIConnection *)

\* the largest expiry a token refresh of the model answers with
MaxExpiresIn == 3

Digits == <<"0", "1", "2", "3", "4", "5", "6", "7", "8", "9">>

\* the decimal numeral of n, for n in 0..9
Numeral(n) == Digits[n + 1]

\* data.user of the login responses of two accounts
User1 ==
  [ sessionId |-> Str("s1"), userId |-> Str("u1"), accessToken |-> Str("a1"),
    refreshToken |-> Str("r1"), expiresIn |-> Num(Numeral(1)) ]
User2 ==
  [ sessionId |-> Str("s2"), userId |-> Str("u2"), accessToken |-> Str("a2"),
    refreshToken |-> Str("r2"), expiresIn |-> Num(Numeral(2)) ]

\* the JSON bodies POST /auth/login is answered with: two accepted logins, wrong
\* credentials, a rejected challenge token, a body with neither data.user nor a
\* message, an empty message, and a rate-limited answer that still carries a user
LoginResponses ==
  { [status |-> Num("200"), data |-> [user |-> User1]],
    [status |-> Num("200"), data |-> [user |-> User2]],
    [status |-> Num("401"), message |-> Str("Invalid credentials")],
    [status |-> Num("200"), message |-> Str("Invalid captcha token")],
    [status |-> Num("200"), data |-> [count |-> Num("0")]],
    [status |-> Num("400"), message |-> Str("")],
    [status |-> Num("429"), message |-> Str("Too many requests"),
     data |-> [user |-> User2]] }

\* the answers of GET /web/token/refresh: the HTTP status and the JSON body
RefreshResponses ==
  { [status |-> "200",
     body |-> [data |-> [accessToken |-> Str("a9"), refreshToken |-> Str(r),
                         expiresIn |-> Num(Numeral(e))]]] :
      r \in {"r8", "r9"}, e \in 1..MaxExpiresIn }
  \cup { [status |-> "401", body |-> [message |-> Str("Token expired")]],
         [status |-> "403", body |-> [error |-> [message |-> Str("Forbidden")]]],
         [status |-> "500", body |-> [status |-> Num("500")]] }

\* the refreshToken argument: omitted, or a token saved by an earlier process
RefreshTokenOptions == { Undefined, Str("r0") }

\* a variant of the test of line 495 that looks at the status only
loginAcceptedStatusOnly(responseJSON) == Get(responseJSON, "status") = Num("200")
\* #getAccessTokenAndSessionId (Cielo.js:489-506), from the parsed response on: the
\* test of line 495, negated
loginAccepted(responseJSON) ==
  /\ Get(responseJSON, "status") = Num("200")
  /\ Truthy(Get(responseJSON, "data"))
  /\ Truthy(Get(Get(responseJSON, "data"), "user"))

\* x || y
Or(x, y) == IF Truthy(x) THEN x ELSE y

\* `Login failed: ${responseJSON.message || 'Unknown error'}` (Cielo.js:496)
loginFailedMessage(responseJSON) ==
  <<"Login failed: ", Or(Get(responseJSON, "message"), Str("Unknown error")).val>>

\* establishConnection (Cielo.js:137-154) once the login response is parsed: the
\* fields are stored from data.user, or the error of line 496 is passed on
establishConnection(d, responseJSON) ==
  IF loginAccepted(responseJSON)
  THEN LET data == Get(Get(responseJSON, "data"), "user")
       IN  [ dev |-> [d EXCEPT !.sessionID = Get(data, "sessionId"),
                               !.userID = Get(data, "userId"),
                               !.accessToken = Get(data, "accessToken"),
                               !.refreshToken = Get(data, "refreshToken"),
                               !.expiresIn = Get(data, "expiresIn")],
             result |-> "resolved", error |-> <<>> ]
  ELSE [ dev |-> d, result |-> "rejected", error |-> loginFailedMessage(responseJSON) ]

\* a variant of refreshAccessToken that stores the whole session from the response,
\* as establishConnection does
refreshAccessTokenWholeSession(d, refreshToken, response) ==
  LET data == Get(response.body, "data")
  IN  IF Truthy(Or(refreshToken, d.refreshToken)) /\ Truthy(data)
      THEN establishConnection(d, [status |-> Num("200"), data |-> [user |-> data]])
      ELSE [ dev |-> d, result |-> "rejected", error |-> <<>> ]
\* refreshAccessToken (Cielo.js:186-228); the rejection of line 222 passes through
\* the catch of lines 225-227, which prefixes it again
refreshAccessToken(d, refreshToken, response) ==
  LET tokenToUse == Or(refreshToken, d.refreshToken)
      body == response.body
      data == Get(body, "data")
  IN  IF ~Truthy(tokenToUse)
      THEN [ dev |-> d, result |-> "rejected",
             error |-> <<"No refresh token available. Must login first.">> ]
      ELSE IF Truthy(data)
      THEN [ dev |-> [d EXCEPT !.accessToken = Get(data, "accessToken"),
                               !.refreshToken = Get(data, "refreshToken"),
                               !.expiresIn = Get(data, "expiresIn")],
             result |-> "resolved", error |-> <<>> ]
      ELSE [ dev |-> d, result |-> "rejected",
             error |-> <<"Token refresh failed: ", "Token refresh failed (",
                         response.status, "): ",
                         Or(Get(body, "message"),
                            Or(Get(Get(body, "error"), "message"),
                               Str("Unknown error"))).val>> ]

EstablishConnection(responseJSON) ==
  LET r == establishConnection(dev, responseJSON)
  IN  /\ dev' = r.dev
      /\ out' = [OutIdle EXCEPT !.auth = "establishConnection",
                                !.authResult = r.result, !.authError = r.error]
      /\ UNCHANGED mgrVars

RefreshAccessToken(refreshToken, response) ==
  LET r == refreshAccessToken(dev, refreshToken, response)
  IN  /\ dev' = r.dev
      /\ out' = [OutIdle EXCEPT !.auth = "refreshAccessToken",
                                !.authResult = r.result, !.authError = r.error]
      /\ UNCHANGED mgrVars

SessNext ==
  \/ \E responseJSON \in LoginResponses : EstablishConnection(responseJSON)
  \/ \E refreshToken \in RefreshTokenOptions, response \in RefreshResponses :
       RefreshAccessToken(refreshToken, response)

SessSpec == DevInit /\ [][SessNext]_vars

----------------------------------------------------------------------------
(* SolveSpec: establishConnectionWithAutoSolve, with the 2Captcha solver of *)
(* solveCaptcha.js (solveCieloCaptcha, solve2Captcha, fetchWithRetry)       *)

\* fetchWithRetry(url, maxRetries = 3, initialDelay = 2000)
maxRetries == 3
initialDelay == 2000

\* solve2Captcha: "Wait before first check", setTimeout(resolve, 10000)
FirstWait == 10000

\* options.apiKey || process.env.TWOCAPTCHA_API_KEY
ApiKeyOptions == { Undefined, Str("key") }
\* options.pollingInterval and options.timeout, in ms
PollingIntervalOptions == { 5000, 10000 }
TimeoutOptions == { 10000, 12000 }

\* the time a request takes to be answered or to fail, in ms
LatencyOptions == { 0, 1000 }

Str_EAI_AGAIN == <<"E", "A", "I", "_", "A", "G", "A", "I", "N">>
Str_ENOTFOUND == <<"E", "N", "O", "T", "F", "O", "U", "N", "D">>
Str_ETIMEDOUT == <<"E", "T", "I", "M", "E", "D", "O", "U", "T">>
Str_ECONNREFUSED == <<"E", "C", "O", "N", "N", "R", "E", "F", "U", "S", "E", "D">>

\* messages of the errors fetch and response.json() throw: a DNS failure, a refused
\* connection, a connection reset by the peer, and a body that is not JSON
FetchErrors ==
  { <<"g", "e", "t", "a", "d", "d", "r", "i", "n", "f", "o", " ", "E", "A", "I", "_", "A", "G", "A", "I", "N">>,
    <<"c", "o", "n", "n", "e", "c", "t", " ", "E", "C", "O", "N", "N", "R", "E", "F", "U", "S", "E", "D">>,
    <<"s", "o", "c", "k", "e", "t", " ", "h", "a", "n", "g", " ", "u", "p">>,
    <<"i", "n", "v", "a", "l", "i", "d", " ", "j", "s", "o", "n">> }

\* the JSON answers of in.php: the job id, or an error code
SubmitResponses ==
  { [status |-> 1, request |-> "77001"],
    [status |-> 0, request |-> "ERROR_ZERO_BALANCE"] }

\* the JSON answers of res.php: not ready, the token, or an error code
PollResults ==
  { [status |-> 0, request |-> "CAPCHA_NOT_READY"],
    [status |-> 1, request |-> "03AGdBq2"],
    [status |-> 0, request |-> "ERROR_CAPTCHA_UNSOLVABLE"] }

\* a variant of the test of fetchWithRetry that takes every error for a network error
isNetworkErrorAlways(message) == Len(message) >= 0
\* fetchWithRetry: isNetworkError
isNetworkError(message) ==
  \/ includes(message, Str_EAI_AGAIN)
  \/ includes(message, Str_ENOTFOUND)
  \/ includes(message, Str_ETIMEDOUT)
  \/ includes(message, Str_ECONNREFUSED)

\* a variant of the tests of lines 111-123 that keeps polling on every answer but a
\* token
pollOutcomeKeepsPolling(result) == IF result.status = 1 THEN "token" ELSE "notReady"
\* solve2Captcha, the tests of lines 111-123 on the answer of a poll
pollOutcome(result) ==
  IF result.status = 1 THEN "token"
  ELSE IF result.request = "CAPCHA_NOT_READY" THEN "notReady"
  ELSE "error"

\* a throw that nothing up to the caller catches
fail(c, message) == [c EXCEPT !.pc = "done", !.result = "rejected", !.error = message]

\* a variant of the loop head of solve2Captcha that still polls when the elapsed
\* time equals the timeout
startPollInclusive(c) ==
  IF c.now - c.startTime <= c.timeout
  THEN [c EXCEPT !.pc = "poll", !.attempts = @ + 1, !.attempt = 1, !.pollRequests = @ + 1]
  ELSE fail(c, <<"2Captcha timeout after ", ToString(c.timeout), "ms">>)
\* solve2Captcha, the head of the polling loop: the test of while, attempts++ and the
\* first fetch of fetchWithRetry(resultUrl); past the loop, the timeout error
startPoll(c) ==
  IF c.now - c.startTime < c.timeout
  THEN [c EXCEPT !.pc = "poll", !.attempts = @ + 1, !.attempt = 1, !.pollRequests = @ + 1]
  ELSE fail(c, <<"2Captcha timeout after ", ToString(c.timeout), "ms">>)

\* what the steps of the solver leave alone
capRest == <<mgr, apis, socks, calls, nCalls, settled, dev, out>>

\* establishConnectionWithAutoSolve (Cielo.js:264-271) into solveCieloCaptcha and
\* solve2Captcha, up to the first fetch of fetchWithRetry(submitUrl)
CallAutoSolve(apiKey, pollingInterval, timeout) ==
  /\ cap.pc = "idle"
  /\ cap' = IF ~Truthy(apiKey)
            THEN fail(cap, <<"TWOCAPTCHA_API_KEY not configured.">>)
            ELSE [cap EXCEPT !.pc = "submit", !.attempt = 1, !.submitRequests = 1,
                             !.pollingInterval = pollingInterval, !.timeout = timeout]
  /\ UNCHANGED capRest

\* fetchWithRetry, the catch block: fetch or response.json() threw
FetchThrows(latency, message) ==
  /\ cap.pc \in {"submit", "poll"}
  /\ LET c == [cap EXCEPT !.now = @ + latency,
                          !.last = IF isNetworkError(message) THEN "network" ELSE "failure"]
     IN cap' = IF isNetworkError(message) /\ c.attempt < maxRetries
               THEN [c EXCEPT !.pc = IF cap.pc = "submit" THEN "submitBackoff"
                                     ELSE "pollBackoff"]
               ELSE fail(c, message)
  /\ UNCHANGED capRest

\* fetchWithRetry: the retry delay has passed, the loop continues with the next fetch
BackoffElapsed ==
  /\ cap.pc \in {"submitBackoff", "pollBackoff"}
  /\ cap' = [cap EXCEPT !.now = @ + initialDelay * 2^(cap.attempt - 1),
                        !.attempt = @ + 1,
                        !.pc = IF cap.pc = "submitBackoff" THEN "submit" ELSE "poll",
                        !.submitRequests = IF cap.pc = "submitBackoff" THEN @ + 1 ELSE @,
                        !.pollRequests = IF cap.pc = "pollBackoff" THEN @ + 1 ELSE @]
  /\ UNCHANGED capRest

\* solve2Captcha: in.php has answered (lines 88-99)
SubmitAnswered(latency, submitResponse) ==
  /\ cap.pc = "submit"
  /\ LET c == [cap EXCEPT !.now = @ + latency]
     IN cap' = IF submitResponse.status # 1
               THEN fail([c EXCEPT !.last = "refused"],
                         <<"2Captcha submission failed: ", submitResponse.request>>)
               ELSE [c EXCEPT !.pc = "firstWait", !.last = "accepted"]
  /\ UNCHANGED capRest

\* solve2Captcha: the first wait has passed (lines 99-109)
FirstWaitElapsed ==
  /\ cap.pc = "firstWait"
  /\ cap' = startPoll([cap EXCEPT !.now = @ + FirstWait, !.startTime = cap.now + FirstWait])
  /\ UNCHANGED capRest

\* solve2Captcha: res.php has answered (lines 109-123); with a token solve2Captcha
\* returns and establishConnectionWithAutoSolve calls establishConnection (Cielo.js:276)
PollAnswered(latency, result) ==
  /\ cap.pc = "poll"
  /\ LET c == [cap EXCEPT !.now = @ + latency]
     IN cap' = IF pollOutcome(result) = "token"
               THEN [c EXCEPT !.pc = "login", !.last = "token", !.logins = @ + 1,
                              !.captchaToken = Str(result.request)]
               ELSE IF pollOutcome(result) = "notReady"
               THEN [c EXCEPT !.pc = "pollWait", !.last = "notReady"]
               ELSE fail([c EXCEPT !.last = "error"],
                         <<"2Captcha error: ", result.request>>)
  /\ UNCHANGED capRest

\* solve2Captcha: the polling interval has passed (line 118, then the loop head of lines 105-109)
PollWaitElapsed ==
  /\ cap.pc = "pollWait"
  /\ cap' = startPoll([cap EXCEPT !.now = @ + cap.pollingInterval, !.pollDelays = @ + 1])
  /\ UNCHANGED capRest

\* establishConnection settles, and with it establishConnectionWithAutoSolve
LoginAnswered(responseJSON) ==
  /\ cap.pc = "login"
  /\ LET r == establishConnection(dev, responseJSON)
     IN /\ dev' = r.dev
        /\ out' = [OutIdle EXCEPT !.auth = "establishConnection",
                                  !.authResult = r.result, !.authError = r.error]
        /\ cap' = [cap EXCEPT !.pc = "done", !.result = r.result, !.error = r.error]
  /\ UNCHANGED <<mgr, apis, socks, calls, nCalls, settled>>

SolveNext ==
  \/ \E apiKey \in ApiKeyOptions, pollingInterval \in PollingIntervalOptions,
        timeout \in TimeoutOptions : CallAutoSolve(apiKey, pollingInterval, timeout)
  \/ \E latency \in LatencyOptions, message \in FetchErrors : FetchThrows(latency, message)
  \/ BackoffElapsed
  \/ \E latency \in LatencyOptions, submitResponse \in SubmitResponses :
       SubmitAnswered(latency, submitResponse)
  \/ FirstWaitElapsed
  \/ \E latency \in LatencyOptions, result \in PollResults : PollAnswered(latency, result)
  \/ PollWaitElapsed
  \/ \E responseJSON \in LoginResponses : LoginAnswered(responseJSON)

SolveSpec == DevInit /\ [][SolveNext]_vars

----------------------------------------------------------------------------
(* Spec: the connection manager *)

MgrInit ==
  /\ \E ar \in AutoReconnectOptions, macs \in MacAddressesOptions,
        dtr \in DisableTokenRefreshOptions, mra \in MaxReconnectAttemptsOptions,
        rd \in ReconnectDelayOptions :
       mgr = constructor(ar, macs, dtr, mra, rd)
  /\ apis = <<>>
  /\ socks = <<>>
  /\ calls = {}
  /\ nCalls = 0
  /\ settled = NoCall

Init == MgrInit /\ dev = DevIdle /\ out = OutIdle /\ cap = CapIdle

Next ==
  \/ CallerConnect
  \/ CallerDisconnect
  \/ \E c \in calls, outcome \in EstablishOutcomes, e \in ExpiresInOptions :
       EstablishDone(c, outcome, e)
  \/ \E c \in calls, ok \in BOOLEAN : DirDone(c, ok)
  \/ \E s \in 1..Len(socks) : SocketOpen(s)
  \/ \E s \in 1..Len(socks), message \in WsErrorMessages : SocketError(s, message)
  \/ \E s \in 1..Len(socks) : SocketClose(s)
  \/ ReconnectTimerFire
  \/ HealthCheckTick
  \/ TokenRefreshFire
  \/ \E macs \in {{"M2"}} : CallerSubscribe(macs)

Spec == Init /\ [][Next]_vars

\* The solver, the login and the directory request each answer (Cielo.js:264-277 and
\* 516-554, awaited at lines 61 and 69 of connect()), and a socket that is connecting
\* reports open or an error.
RequestsAnswer ==
  /\ WF_vars(\E c \in calls, outcome \in EstablishOutcomes, e \in ExpiresInOptions :
               EstablishDone(c, outcome, e))
  /\ WF_vars(\E c \in calls, ok \in BOOLEAN : DirDone(c, ok))
  /\ WF_vars(\E s \in 1..Len(socks) :
               /\ socks[s] = "connecting"
               /\ (SocketOpen(s) \/ \E message \in WsErrorMessages : SocketError(s, message)))

\* the connection manager when every request and every socket answers
LiveSpec == Init /\ [][Next]_vars /\ RequestsAnswer

----------------------------------------------------------------------------
(* NoRefreshSpec: the connection manager constructed with disableTokenRefresh: true *)

NoRefreshInit ==
  /\ \E ar \in AutoReconnectOptions, macs \in MacAddressesOptions,
        mra \in MaxReconnectAttemptsOptions, rd \in ReconnectDelayOptions :
       mgr = constructor(ar, macs, TRUE, mra, rd)
  /\ apis = <<>>
  /\ socks = <<>>
  /\ calls = {}
  /\ nCalls = 0
  /\ settled = NoCall
  /\ dev = DevIdle
  /\ out = OutIdle
  /\ cap = CapIdle

\* the steps of Next but the firing of the token-refresh timer, which is never armed
NoRefreshNext ==
  \/ CallerConnect
  \/ CallerDisconnect
  \/ \E c \in calls, outcome \in EstablishOutcomes, e \in ExpiresInOptions :
       EstablishDone(c, outcome, e)
  \/ \E c \in calls, ok \in BOOLEAN : DirDone(c, ok)
  \/ \E s \in 1..Len(socks) : SocketOpen(s)
  \/ \E s \in 1..Len(socks), message \in WsErrorMessages : SocketError(s, message)
  \/ \E s \in 1..Len(socks) : SocketClose(s)
  \/ ReconnectTimerFire
  \/ HealthCheckTick
  \/ \E macs \in {{"M2"}} : CallerSubscribe(macs)

NoRefreshSpec == NoRefreshInit /\ [][NoRefreshNext]_vars


----------------------------------------------------------------------------
(* Properties of the connection manager (Spec) *)

\* the socket owned by the manager's current api object is open
ManagerSocketOpen ==
  /\ mgr.api # 0
  /\ apis[mgr.api].ws # 0
  /\ socks[apis[mgr.api].ws] = "open"

\* socket s is the socket of the manager's current api object
IsManagerSocket(s) == mgr.api # 0 /\ apis[mgr.api].ws = s

\* C1: at most one reconnect attempt is in flight. The count of the claim is the
\* pending scheduleReconnect timers plus the connect() calls not yet settled; the
\* timers alone are part of it, so the claim requires that no two reconnect timers
\* are ever pending together.
C1_OneReconnectInFlight == mgr.reconnectTimers <= 1

\* C2: whenever the socket of the manager's current api object emits 'error' or
\* 'close', the manager leaves the event with isConnected false and, when
\* autoReconnect is on, with one more reconnect scheduled.
C2_SocketEventDisconnects ==
  [][\A s \in 1..Len(socks) :
       (/\ IsManagerSocket(s)
        /\ SocketClose(s) \/ \E message \in WsErrorMessages : SocketError(s, message))
       => /\ ~mgr'.isConnected
          /\ mgr.autoReconnect => mgr'.reconnectTimers > mgr.reconnectTimers]_vars

\* C3: every health-check tick that finds the manager's socket not open, with
\* autoReconnect on, schedules a reconnect.
C3_TickSchedulesReconnect ==
  [][(HealthCheckTick /\ mgr.autoReconnect /\ ~ManagerSocketOpen)
       => mgr'.reconnectTimers = mgr.reconnectTimers + 1]_vars

\* C4: the delays handed to the reconnect timer since the last successful connect()
\* are reconnectDelay, 2*reconnectDelay, 4*reconnectDelay, ...: the k-th is
\* min(reconnectDelay * 2^(k-1), 300000).
C4_BackoffSequence ==
  \A k \in 1..Len(mgr.delays) :
     mgr.delays[k] = Min(mgr.reconnectDelay * 2^(k - 1), 300000)

\* C5: when a connect() attempt fails with reconnectAttempts equal to
\* maxReconnectAttempts, the failure is handed to onError and the manager is left
\* idle: isConnected false and no reconnect, health-check or token-refresh timer.
C5_ExhaustionReportedAndIdle ==
  (/\ settled.id # 0 /\ settled.kind = "connect" /\ settled.result = "rejected"
   /\ mgr.autoReconnect /\ mgr.reconnectAttempts = mgr.maxReconnectAttempts)
  => /\ mgr.onErrorCalls # <<>>
     /\ ~mgr.isConnected
     /\ mgr.reconnectTimers = 0
     /\ ~mgr.healthCheckTimer
     /\ ~mgr.tokenRefreshTimer

\* C6: a connect() call in which the captcha solve, the login or the directory
\* fetch failed settles by rejecting, whatever autoReconnect and reconnectAttempts.
C6_StageFailureRejects ==
  (/\ settled.id # 0 /\ settled.kind = "connect"
   /\ settled.failed \in {"solve", "login", "directory"})
  => settled.result = "rejected"

\* C6, amended: a connect() call in which the captcha solve, the login or the
\* directory fetch failed never leaves the manager connected; it rejects when
\* autoReconnect is off or reconnectAttempts had reached maxReconnectAttempts, and
\* otherwise schedules a reconnect (reconnectAttempts + 1) and resolves with undefined.
C6_StageFailureRejectsOrRetries ==
  (/\ settled.id # 0 /\ settled.kind = "connect"
   /\ settled.failed \in {"solve", "login", "directory"})
  => /\ ~mgr.isConnected
     /\ \/ /\ settled.result = "rejected"
           /\ ~(mgr.autoReconnect /\ mgr.reconnectAttempts < mgr.maxReconnectAttempts)
        \/ /\ settled.result = "swallowed"
           /\ mgr.autoReconnect
           /\ mgr.reconnectAttempts - 1 < mgr.maxReconnectAttempts
           /\ mgr.reconnectTimers >= 1

\* the login of a connect() call failed and the catch block scheduled a reconnect
C6_Witness ==
  /\ settled.id # 0 /\ settled.kind = "connect" /\ settled.failed = "login"
  /\ settled.result = "swallowed" /\ mgr.reconnectTimers >= 1

\* C7: at most one WebSocket is live (created and not closed) at any time.
C7_OneLiveSocket == Cardinality(LiveSockets) <= 1

----------------------------------------------------------------------------
(* Properties of the devices (DevSpec) *)

\* the frame leaves the field of the action object out
Absent(data, field) == Get(data.action, field) = Undefined

\* C9: a StateUpdate frame for a device that carries only some of power, mode,
\* fanspeed, temp (or no room temperature) leaves every field it does not carry
\* at the value the device had before the frame.
C9_PartialUpdateKeepsFields ==
  [][\A data \in Frames :
       (OnMessage(data) /\ isStateUpdate(data))
       => \A i \in 1..Len(dev.hvacs) :
            dev.hvacs[i].macAddress = data.mac_address
            => /\ Absent(data, "power") => dev'.hvacs[i].power = dev.hvacs[i].power
               /\ Absent(data, "mode") => dev'.hvacs[i].mode = dev.hvacs[i].mode
               /\ Absent(data, "fanspeed") => dev'.hvacs[i].fanSpeed = dev.hvacs[i].fanSpeed
               /\ Absent(data, "temp") => dev'.hvacs[i].temperature = dev.hvacs[i].temperature
               /\ Get(data.lat_env_var, "temperature") = Undefined
                  => dev'.hvacs[i].roomTemperature = dev.hvacs[i].roomTemperature]_vars

\* C10: a step changes the commandState of a device that stays in the collection
\* only by processing a StateUpdate frame addressed to that device; a step in which
\* sendCommand ran (powerOn, powerOff, setMode, setFanSpeed, setTemperature), whether
\* its write resolved or rejected, leaves every device as it was.
C10_CommandStateFromBackendOnly ==
  [][/\ \A i \in 1..Len(dev.hvacs) :
          (i <= Len(dev'.hvacs)
           /\ commandState(dev'.hvacs[i]) # commandState(dev.hvacs[i]))
          => \E data \in Frames :
               /\ data.mac_address = dev.hvacs[i].macAddress
               /\ isStateUpdate(data)
               /\ OnMessage(data)
     /\ out'.sendResult \in {"resolved", "rejected"} => dev'.hvacs = dev.hvacs]_vars

\* a command was written to the open socket whose value differs from the state the
\* device still reports
C10_Witness ==
  /\ out.sendResult = "resolved"
  /\ \E i \in 1..Len(dev.hvacs) :
       /\ out.sent.macAddress = dev.hvacs[i].macAddress
       /\ out.sent.actionType = "power"
       /\ out.sent.actionValue # dev.hvacs[i].power

\* two spellings of one MAC address: equal up to letter case
SameAddress(a, b) == toUpperCase(a) = toUpperCase(b)

\* C11: device identity matching is case-insensitive at every boundary: a directory
\* entry whose address a filter entry spells in another letter case is subscribed,
\* and a StateUpdate whose mac_address spells a device's address in another letter
\* case is applied to that device.
C11_CaseInsensitiveMatching ==
  [][/\ \A p \in 1..Len(dev.pending), listDevices \in DirectoryOptions :
          SubscribeDirDone(p, TRUE, listDevices)
          => \A k \in 1..Len(listDevices) :
               (\E j \in 1..Len(dev.pending[p]) :
                   SameAddress(dev.pending[p][j], listDevices[k].macAddress))
               => \E i \in 1..Len(dev'.hvacs) :
                    dev'.hvacs[i].macAddress = listDevices[k].macAddress
     /\ \A data \in Frames :
          (isStateUpdate(data) /\ OnMessage(data))
          => \A i \in 1..Len(dev.hvacs) :
               SameAddress(dev.hvacs[i].macAddress, data.mac_address)
               => dev'.hvacs[i] = applyFrame(dev.hvacs[i], data)]_vars

\* the last two steps were sendCommand calls for the same device with the same action
\* and value, both written
SameCommandAgain ==
  /\ out.sendResult = "resolved" /\ out'.sendResult = "resolved"
  /\ out'.hvac = out.hvac
  /\ out'.sent.actionType = out.sent.actionType
  /\ out'.sent.actionValue = out.sent.actionValue

\* C12, as claimed: building a command twice in a row with the same action and value
\* for an unchanged device yields two payloads equal in every field but ts,
\* oldPower included.
C12_SameCommandSamePayload ==
  [][SameCommandAgain => out'.sent = out.sent]_vars

\* C12, amended: the two payloads are equal in every field but ts and, for a power
\* command, oldPower; the oldPower of the second power command is the value the
\* first one commanded.
C12_SameCommandSamePayloadButOldPower ==
  [][SameCommandAgain
       => /\ out'.sent = [out.sent EXCEPT !.oldPower = out'.sent.oldPower]
          /\ out.sent.actionType # "power" => out'.sent.oldPower = out.sent.oldPower
          /\ out.sent.actionType = "power" => out'.sent.oldPower = out.sent.actionValue]_vars

\* powerOn was written a second time for a device that still reports power off
C12_Witness ==
  /\ out.sendResult = "resolved" /\ dev.commandCount = 2
  /\ out.sent.actionType = "power" /\ out.sent.actionValue = Str("on")
  /\ out.sent.oldPower = Str("on")
  /\ dev.hvacs[out.hvac].power = Str("off")

\* C13: in the payload of every command (action, value) for every device state:
\* actionType is the action and actionValue the value; actions.<action> carries the
\* value (as a string for temp); the other of actions.power / mode / fanspeed / temp
\* equal the device's current values; swing, turbo, light, followme are constant;
\* oldPower is the PreviousPowerState entry of the device's MAC, or "off" when the
\* map holds none (an entry holding undefined is none).
C13_PayloadContent ==
  [][\A i \in 1..Len(dev.hvacs), cmd \in CommandOptions :
       (out'.sendResult = "resolved" /\ out'.hvac = i
        /\ SendCommand(i, cmd[1], cmd[2], TRUE))
       => LET p == out'.sent
              h == dev.hvacs[i]
              mac == h.macAddress
              current == [power |-> h.power, mode |-> h.mode,
                          fanspeed |-> h.fanSpeed, temp |-> h.temperature]
          IN /\ p.macAddress = mac
             /\ p.actionType = cmd[1] /\ p.actionValue = cmd[2]
             /\ \A f \in {"power", "mode", "fanspeed", "temp"} :
                  Get(p.actions, f) =
                    IF f # cmd[1] THEN current[f]
                    ELSE IF f = "temp" THEN Str(cmd[2].val) ELSE cmd[2]
             /\ Get(p.actions, "swing") = Str("adjust")
             /\ Get(p.actions, "turbo") = Str("off")
             /\ Get(p.actions, "light") = Str("on/off")
             /\ Get(p.actions, "followme") = Str("off")
             /\ p.oldPower =
                  IF mac \in DOMAIN dev.previousPowerStates
                     /\ dev.previousPowerStates[mac] # Undefined
                  THEN dev.previousPowerStates[mac] ELSE Str("off")]_vars

\* a fan-speed command was written for a device whose PreviousPowerState entry is
\* set and whose fan speed differs from the commanded one
C13_Witness ==
  /\ out.sendResult = "resolved"
  /\ out.sent.actionType = "fanspeed"
  /\ Get(out.sent.actions, "fanspeed") # dev.hvacs[out.hvac].fanSpeed
  /\ out.sent.macAddress \in DOMAIN dev.previousPowerStates
  /\ out.sent.oldPower = Str("off")

\* C14: in every command written, actions.temp is a string, whatever the action and
\* the stored temperature; and the actionValue of a temperature command is the
\* caller's value unchanged.
C14_ActionsTempIsString ==
  [][\A i \in 1..Len(dev.hvacs), cmd \in CommandOptions :
       (out'.sendResult = "resolved" /\ SendCommand(i, cmd[1], cmd[2], TRUE))
       => /\ Get(out'.sent.actions, "temp").type = "string"
          /\ cmd[1] = "temp" => out'.sent.actionValue = cmd[2]]_vars

\* C15: sendCommand resolves only when the write to the socket completed and rejects
\* otherwise (socket not open, no socket, write failed); a rejected command writes
\* no frame, a frame is written only by the step of a sendCommand that resolves (no
\* queue), and a rejection leaves the manager's isConnected, reconnectAttempts and
\* reconnect timers as they were.
C15_SendSettlesWithTheWrite ==
  [][/\ \A i \in 1..Len(dev.hvacs), cmd \in CommandOptions, writeOk \in BOOLEAN :
          (out'.sendResult # "none" /\ out'.hvac = i
           /\ SendCommand(i, cmd[1], cmd[2], writeOk))
          => /\ out'.sendResult = "resolved" <=> (dev.ws = "open" /\ writeOk)
             /\ out'.sendResult = "rejected"
                => /\ out'.sent = Undefined
                   /\ mgr'.isConnected = mgr.isConnected
                   /\ mgr'.reconnectAttempts = mgr.reconnectAttempts
                   /\ mgr'.reconnectTimers = mgr.reconnectTimers
     /\ out'.sent # Undefined => out'.sendResult = "resolved"]_vars

\* a command was rejected on a socket that is not open, and nothing was written
C15_Witness ==
  /\ out.sendResult = "rejected" /\ dev.ws \in {"connecting", "closed"}
  /\ out.sent = Undefined /\ dev.commandCount > 0

\* the frame is a StateUpdate with an action object, addressed to a subscribed device
AppliedToDevice(data) ==
  /\ data.message_type = Str("StateUpdate") /\ data.action # Undefined
  /\ \E i \in 1..Len(dev.hvacs) : dev.hvacs[i].macAddress = data.mac_address

\* C16: a StateUpdate frame applied to a device raises exactly one state-change
\* notification, and a temperature notification if and only if it changed the
\* device's room temperature.
C16_TemperatureNotifiedIffChanged ==
  [][\A data \in Frames :
       (AppliedToDevice(data) /\ OnMessage(data))
       => /\ out'.commandCallbacks = 1
          /\ out'.temperatureCallbacks = 1
             <=> \E i \in 1..Len(dev.hvacs) :
                   /\ dev.hvacs[i].macAddress = data.mac_address
                   /\ dev'.hvacs[i].roomTemperature # dev.hvacs[i].roomTemperature
          /\ out'.temperatureCallbacks \in {0, 1}]_vars

\* the frame has no message_type, has no action object, or is of another type
NotAStateUpdate(data) ==
  \/ data.message_type = Undefined
  \/ data.action = Undefined
  \/ data.message_type # Str("StateUpdate")

\* C17: a frame with no message_type, with no action object or of a type other than
\* "StateUpdate" changes nothing: devices, PreviousPowerState map and socket stay
\* as they were, no callback is raised and the manager is untouched.
C17_OtherFramesAreNoOps ==
  [][\A data \in Frames :
       (out'.messages = 1 /\ NotAStateUpdate(data) /\ OnMessage(data))
       => /\ dev' = dev
          /\ out' = [OutIdle EXCEPT !.messages = 1]
          /\ mgr' = mgr /\ socks' = socks]_vars

\* the listener has just run on a frame and raised nothing, with a device subscribed
\* that a StateUpdate carrying the same action and telemetry would have changed
C17_Witness ==
  /\ dev.ws = "open" /\ out.messages = 1 /\ out.commandCallbacks = 0
  /\ \E i \in 1..Len(dev.hvacs) :
       /\ dev.hvacs[i].macAddress = MacA
       /\ dev.hvacs[i] # applyFrame(dev.hvacs[i],
                                    Frame(Str("StateUpdate"), MacA, FullAction,
                                          [temperature |-> Num("71")]))

SessionFields == {"sessionID", "userID", "accessToken", "refreshToken", "expiresIn"}

\* C18: the session exposed to callers is either absent or complete: after a login, a
\* failed login or a refresh, the session id, the user id, the access token, the
\* refresh token and the expiry are all unset or all set (being unexpired and of one
\* login or refresh would only add to this)
C18_SessionAbsentOrComplete ==
  \/ \A f \in SessionFields : dev[f] = Undefined
  \/ \A f \in SessionFields : dev[f] # Undefined

\* the number a numeral stands for
numberOf(v) == CHOOSE n \in 0..9 : Numeral(n) = v.val

LoginThenRefresh ==
  /\ out.auth = "establishConnection" /\ out.authResult = "resolved"
  /\ out'.auth = "refreshAccessToken" /\ out'.authResult = "resolved"

\* C19, as claimed: a successful login followed immediately by a successful refresh
\* leaves the user id and the session id of the login in place and makes the expiry
\* strictly greater than it was before the refresh
C19_RefreshKeepsIdsAndExtendsExpiry ==
  [][LoginThenRefresh
     => /\ dev'.userID = dev.userID /\ dev'.sessionID = dev.sessionID
        /\ numberOf(dev'.expiresIn) > numberOf(dev.expiresIn)]_vars

\* C19, amended: a successful login followed immediately by a successful refresh
\* leaves the user id and the session id of the login in place, and the access token,
\* the refresh token and the expiry are the ones of the refresh response, whatever
\* its expiry is
C19_RefreshKeepsIdsAndStoresResponse ==
  [][\A refreshToken \in RefreshTokenOptions, response \in RefreshResponses :
       (LoginThenRefresh /\ RefreshAccessToken(refreshToken, response))
       => /\ dev'.userID = dev.userID /\ dev'.userID # Undefined
          /\ dev'.sessionID = dev.sessionID /\ dev'.sessionID # Undefined
          /\ dev'.accessToken = response.body.data.accessToken
          /\ dev'.refreshToken = response.body.data.refreshToken
          /\ dev'.expiresIn = response.body.data.expiresIn]_vars

\* a refresh has just resolved on the session of account 1, whose login expiry was 1,
\* and the refreshed expiry is no greater
C19_Witness ==
  /\ out.auth = "refreshAccessToken" /\ out.authResult = "resolved"
  /\ dev.sessionID = Str("s1") /\ dev.userID = Str("u1")
  /\ dev.accessToken = Str("a9") /\ dev.expiresIn = Num("1")

LoginRefused(responseJSON) ==
  \/ Get(responseJSON, "status") # Num("200")
  \/ Get(Get(responseJSON, "data"), "user") = Undefined

\* C20: establishConnection rejects whenever the login response has a status other
\* than 200 or lacks data.user, the error message is "Login failed: " followed by the
\* message of the backend when it sent one, and none of the stored session fields is
\* modified
C20_RefusedLoginRejects ==
  [][\A responseJSON \in LoginResponses :
       (LoginRefused(responseJSON) /\ EstablishConnection(responseJSON))
       => /\ out'.authResult = "rejected"
          /\ Len(out'.authError) = 2 /\ out'.authError[1] = "Login failed: "
          /\ Truthy(Get(responseJSON, "message"))
             => out'.authError[2] = responseJSON.message.val
          /\ \A f \in SessionFields : dev'[f] = dev[f]]_vars

\* a login has just been refused for wrong credentials on a connection that holds the
\* session of an earlier login
C20_Witness ==
  /\ out.auth = "establishConnection" /\ out.authResult = "rejected"
  /\ out.authError = <<"Login failed: ", "Invalid credentials">>
  /\ \A f \in SessionFields : dev[f] # Undefined

----------------------------------------------------------------------------
(* Properties of the token-expiry timer (Spec) *)

\* C21: with token refresh enabled, a connect() that has just succeeded with a token
\* expiring at a known time leaves the teardown-then-reconnect armed (the
\* token-refresh timer pending), also when the margin before the expiry was already
\* reached at connect time; and when that timer fires the manager is torn down
\* (disconnect) before the new connect() starts.
C21_TokenExpiryTearsDownThenReconnects ==
  [][/\ (/\ settled'.id # 0 /\ settled'.result = "connected"
         /\ ~mgr'.disableTokenRefresh
         /\ mgr'.tokenExpiresAt \in {"withinMargin", "beyondMargin"})
        => mgr'.tokenRefreshTimer /\ mgr'.reconnectTimers = mgr.reconnectTimers
     /\ TokenRefreshFire
        => /\ ~mgr'.isConnected /\ ~mgr'.healthCheckTimer /\ ~mgr'.tokenRefreshTimer
           /\ nCalls' = nCalls + 1]_vars

\* the step is a socket 'error' or 'close' event
SocketEventStep ==
  \E s \in 1..Len(socks) : socks'[s] # socks[s] /\ socks'[s] \in {"errored", "closed"}

\* the step is a health-check tick that found the manager not connected
FailedHealthCheckStep ==
  /\ mgr.healthCheckTimer /\ ~mgr.isConnected /\ ~mgr'.healthCheckTimer
  /\ socks' = socks /\ calls' = calls

\* the step is the catch block of a connect() attempt that failed and will be retried
FailedConnectStep == settled'.id # 0 /\ settled'.result = "swallowed"

\* the step has scheduled a reconnect
SchedulesReconnect ==
  mgr'.reconnectTimers > mgr.reconnectTimers \/ mgr'.delays \notin {mgr.delays, <<>>}

\* with disableTokenRefresh no token-refresh timer is ever pending, and a connect()
\* that succeeds, whatever the expiry of its token, leaves the manager connected with
\* reconnectAttempts 0 and schedules nothing
TokenExpiryIgnored ==
  /\ ~mgr'.tokenRefreshTimer
  /\ (settled'.id # 0 /\ settled'.result = "connected")
     => /\ mgr'.isConnected /\ mgr'.reconnectAttempts = 0
        /\ mgr'.reconnectTimers = mgr.reconnectTimers
        /\ mgr'.healthCheckTimer

\* C22, as claimed: with disableTokenRefresh set, no token-refresh timer is ever
\* pending, token expiry causes no disconnect, no reconnect and no change of
\* reconnectAttempts, and a reconnect is scheduled only by a socket error or close
\* and by a failed health check.
C22_OnlySocketAndHealthReconnect ==
  [][/\ TokenExpiryIgnored
     /\ SchedulesReconnect => SocketEventStep \/ FailedHealthCheckStep]_vars

\* C22, amended: with disableTokenRefresh set, no token-refresh timer is ever
\* pending, token expiry causes no disconnect, no reconnect and no change of
\* reconnectAttempts, and a reconnect is scheduled only by a socket error or close,
\* by a failed health check and by the failure of a connect() attempt.
C22_NoTokenReconnect ==
  [][/\ TokenExpiryIgnored
     /\ SchedulesReconnect
        => SocketEventStep \/ FailedHealthCheckStep \/ FailedConnectStep]_vars

\* a connect() has just succeeded with a token already inside the refresh margin, on
\* a manager with disableTokenRefresh and autoReconnect, and nothing is scheduled
C22_Witness ==
  /\ settled.id # 0 /\ settled.result = "connected"
  /\ mgr.disableTokenRefresh /\ mgr.autoReconnect
  /\ mgr.tokenExpiresAt = "withinMargin"
  /\ mgr.isConnected /\ mgr.reconnectTimers = 0 /\ ~mgr.tokenRefreshTimer

----------------------------------------------------------------------------
(* Properties of the device collection (DevSpec) *)

\* the entries of listDevices the filter macAddresses selects: all of them when the
\* filter is empty
Selected(listDevices, macAddresses) ==
  SelectSeq(listDevices,
            LAMBDA device : \/ macAddresses = <<>>
                            \/ \E j \in 1..Len(macAddresses) :
                                 macAddresses[j] = device.macAddress)

\* C23: when a subscribeToHVACs call succeeds (its socket reports open), the device
\* collection holds one device per directory entry its MAC filter selected (every
\* entry for an empty filter), each with the power, temperature, mode, fan speed and
\* room temperature of latestAction.power, .temp, .mode, .fanspeed and latEnv.temp.
C23_SeededFromDirectory ==
  [][(dev.ws = "connecting" /\ dev'.ws = "open" /\ dev.opening # <<>>)
     => LET sel == Selected(dev.opening[2], dev.opening[1])
        IN /\ Len(dev'.hvacs) = Len(sel)
           /\ \A i \in 1..Len(sel) :
                /\ dev'.hvacs[i].macAddress = sel[i].macAddress
                /\ dev'.hvacs[i].power = sel[i].latestAction.power
                /\ dev'.hvacs[i].temperature = sel[i].latestAction.temp
                /\ dev'.hvacs[i].mode = sel[i].latestAction.mode
                /\ dev'.hvacs[i].fanSpeed = sel[i].latestAction.fanspeed
                /\ dev'.hvacs[i].roomTemperature = sel[i].latEnv.temp]_vars

----------------------------------------------------------------------------
(* Properties of the captcha solver (SolveSpec) *)

\* C24: polling stops at the first definitive answer. A poll answered with a token
\* hands that token to the login and one answered with anything but "not ready" or a
\* token fails the solve at once with that error; after either, and after a
\* submission answered with an error, no poll is issued; a refused submission fails
\* with no poll issued at all.
C24_PollingStopsAtFirstAnswer ==
  [][/\ \A latency \in LatencyOptions, result \in PollResults :
          (cap.pc = "poll" /\ PollAnswered(latency, result))
          => /\ result.status = 1
                => /\ cap'.pc = "login" /\ cap'.captchaToken = Str(result.request)
                   /\ cap'.result = "none"
             /\ (result.status # 1 /\ result.request # "CAPCHA_NOT_READY")
                => /\ cap'.pc = "done" /\ cap'.result = "rejected"
                   /\ cap'.error = <<"2Captcha error: ", result.request>>
     /\ cap.last \in {"token", "error", "refused"}
        => cap'.pollRequests = cap.pollRequests /\ cap'.attempts = cap.attempts
     /\ cap'.last = "refused"
        => cap'.result = "rejected" /\ cap'.pollRequests = 0]_vars

\* the second poll of a solve, after one "not ready", was answered with an error code
\* and the solve has failed with it
C24_Witness ==
  /\ cap.pc = "done" /\ cap.last = "error" /\ cap.attempts = 2 /\ cap.pollDelays = 1
  /\ cap.error = <<"2Captcha error: ", "ERROR_CAPTCHA_UNSOLVABLE">>

TimedOut == cap.error = <<"2Captcha timeout after ", ToString(cap.timeout), "ms">>

\* every request of the solve so far was answered at once and none failed
InstantSolver ==
  /\ cap.submitRequests = 1 /\ cap.pollRequests = cap.attempts
  /\ cap.pc \notin {"idle", "submit", "firstWait"}
     => cap.now = FirstWait + cap.pollDelays * cap.pollingInterval

\* C25: a solve whose polls all answer "not ready" ends with the timeout error no
\* later than the configured timeout plus one polling interval after the call, even
\* when every request is answered at once.
C25_TimeoutBoundsTheSolve ==
  (cap.pc = "done" /\ TimedOut /\ InstantSolver)
  => cap.now <= cap.timeout + cap.pollingInterval

\* C26: with a solver that answers each request at once, "not ready" k times and
\* then a token, the call makes exactly k+1 polls and waits k polling intervals, calls
\* the login exactly once with that token and resolves when the login is accepted;
\* and when "not ready" persists it fails with the timeout error after the first
\* poll count whose intervals no longer fit inside the timeout, without any login.
C26_PollsThenOneLogin ==
  [][/\ (InstantSolver' /\ cap'.last = "token")
        => /\ cap'.attempts = cap'.pollDelays + 1
           /\ cap'.pollDelays * cap'.pollingInterval < cap'.timeout
           /\ cap'.logins = 1 /\ cap'.captchaToken = Str("03AGdBq2")
     /\ (InstantSolver' /\ TimedOut')
        => /\ cap'.logins = 0 /\ cap'.result = "rejected"
           /\ cap'.attempts = cap'.pollDelays
           /\ cap'.attempts * cap'.pollingInterval >= cap'.timeout
           /\ (cap'.attempts - 1) * cap'.pollingInterval < cap'.timeout
     /\ \A responseJSON \in LoginResponses :
          (cap.pc = "login" /\ LoginAnswered(responseJSON))
          => /\ cap'.logins = 1 /\ cap'.pc = "done"
             /\ cap'.result = "resolved" <=> loginAccepted(responseJSON)]_vars

\* an instant solver answered "not ready" twice and then the token, and the login
\* made with that token was accepted
C26_Witness ==
  /\ cap.pc = "done" /\ cap.result = "resolved" /\ InstantSolver
  /\ cap.attempts = 3 /\ cap.pollDelays = 2 /\ cap.logins = 1
  /\ dev.sessionID # Undefined

\* the messages of FetchErrors that name one of the four network error codes
NetworkFailures ==
  { message \in FetchErrors :
      \E code \in {Str_EAI_AGAIN, Str_ENOTFOUND, Str_ETIMEDOUT, Str_ECONNREFUSED} :
        includes(message, code) }

\* C27, as claimed: the solver never re-issues a request: one submission request
\* per solve and one request per poll, whatever fails.
C27_NoRequestReissued ==
  cap.submitRequests <= 1 /\ cap.pollRequests = cap.attempts

\* C27, amended: a request is re-issued only after it failed with one of the network
\* errors EAI_AGAIN, ENOTFOUND, ETIMEDOUT, ECONNREFUSED, after a delay of 2000 ms
\* and then 4000 ms, and at most twice (three attempts); every other failure, and the
\* third network failure, fails the solve with that error; a request that was
\* answered is never re-issued.
C27_OnlyNetworkErrorsRetried ==
  [][/\ cap'.submitRequests <= maxRetries
     /\ cap'.pollRequests <= maxRetries * cap'.attempts
     /\ (\/ cap'.submitRequests > cap.submitRequests /\ cap.pc # "idle"
         \/ cap'.pollRequests > cap.pollRequests /\ cap'.attempts = cap.attempts)
        => /\ cap.last = "network"
           /\ cap'.now - cap.now \in {2000, 4000}
     /\ \A latency \in LatencyOptions, message \in FetchErrors :
          ((cap.pc \in {"submit", "poll"}) /\ FetchThrows(latency, message))
          => IF message \in NetworkFailures /\ cap.attempt < 3
             THEN cap'.pc \in {"submitBackoff", "pollBackoff"} /\ cap'.result = "none"
             ELSE cap'.pc = "done" /\ cap'.result = "rejected" /\ cap'.error = message]_vars

\* a poll failed with a connection reset, which is not among the four codes, and the
\* solve failed with it without a second request
C27_Witness ==
  /\ cap.pc = "done" /\ cap.result = "rejected" /\ cap.last = "failure"
  /\ cap.attempts = 1 /\ cap.pollRequests = 1 /\ cap.submitRequests = 1

-----------------------------------------------------------------------------
(* Properties of the manager's devices, attempts and disconnect (Spec) *)

\* C28: when subscribeToHvacs(M) of the manager has just succeeded on the connection
\* the manager holds, the MAC addresses the manager holds are those of the devices
\* in getHvacs(): the devices it had before the call and those of M.
C28_SubscribeAddsDevices ==
  (/\ settled.id # 0 /\ settled.kind = "subscribe" /\ settled.result = "subscribed"
   /\ mgr.api # 0 /\ apis[mgr.api].ws = settled.sock)
  => mgr.macAddresses = apis[mgr.api].hvacs

\* C29: the count of reconnect attempts never exceeds maxReconnectAttempts.
C29_AttemptsWithinMax ==
  mgr.reconnectAttempts <= mgr.maxReconnectAttempts

\* C30: from the caller's disconnect() until the caller's next connect(), no step
\* starts a connect() and the manager is not connected.
C30_DisconnectIsFinal ==
  [][(mgr.released /\ mgr'.released)
     => /\ ~mgr'.isConnected
        /\ ~\E c \in calls' \ calls : c.kind = "connect" /\ c.pc = "establish"]_vars

\* a connect() call starts in this step
ConnectStarts ==
  nCalls' > nCalls /\ \E c \in calls' \ calls : c.kind = "connect" /\ c.pc = "establish"

\* C31: with autoReconnect off, a connect() call starts only in a step of the caller.
C31_OnlyCallerConnects ==
  [][(~mgr.autoReconnect /\ ConnectStarts) => CallerConnect]_vars

\* the manager's current api object exists and owns a WebSocket that is open
ApiSocketOpen ==
  mgr.api # 0 /\ apis[mgr.api].ws # 0 /\ socks[apis[mgr.api].ws] = "open"

\* C32: whenever isConnected is true, the manager's current api object is non-null
\* and owns a WebSocket that is open. Stated for a manager that holds MAC addresses,
\* whose connect() opens a socket: the case the claim covers in which a socket exists.
C32_ConnectedMeansOpenSocket ==
  (mgr.isConnected /\ hasMacAddresses(mgr)) => ApiSocketOpen

\* C34: every subscribeToHVACs call in flight, through its directory fetch and its
\* socket open, runs on an api object whose login had completed when it was invoked.
C34_SubscribeOnLoggedInApi ==
  \A c \in calls : c.pc \in {"dir", "open"} => c.authed

\* C39: the manager has at most one health-check interval and at most one
\* token-refresh timeout alive; disconnect(), called by the caller or by the
\* token-refresh timer, leaves none of either, and so does a health check that
\* failed for its interval; and the health-check timer becomes active only in a step
\* in which a connect() succeeds.
C39_TimersSingleAndStopped ==
  [][/\ mgr'.intervals <= 1 /\ mgr'.timeouts <= 1
     /\ mgr'.healthCheckTimer = (mgr'.intervals = 1)
     /\ mgr'.tokenRefreshTimer = (mgr'.timeouts = 1)
     /\ (\/ mgr'.released /\ nCalls' = nCalls /\ socks' = socks /\ CallerDisconnect
         \/ mgr.tokenRefreshTimer /\ nCalls' > nCalls /\ TokenRefreshFire)
        => mgr'.intervals = 0 /\ mgr'.timeouts = 0
     /\ (/\ mgr.healthCheckTimer /\ ~mgr.isConnected
         /\ nCalls' = nCalls /\ socks' = socks /\ HealthCheckTick)
        => mgr'.intervals = 0
     /\ (mgr'.healthCheckTimer /\ ~mgr.healthCheckTimer)
        => /\ settled'.id # 0
           /\ settled'.kind = "connect" /\ settled'.result = "connected"]_vars

\* a second connect() has just succeeded on a manager that was not disconnected in
\* between, leaving one interval and one timeout alive
C39_Witness ==
  /\ settled.id > 1 /\ settled.result = "connected" /\ ~mgr.released
  /\ Cardinality(LiveSockets) > 1
  /\ mgr.intervals = 1 /\ mgr.timeouts = 1

\* C38: a socket 'error' or 'close' event hands one error to the onError callback
\* and schedules at most one reconnect.
C38_SocketEventReportedOnce ==
  [][SocketEventStep
     => /\ Len(mgr'.onErrorCalls) = 1
        /\ mgr'.reconnectTimers <= mgr.reconnectTimers + 1]_vars

-----------------------------------------------------------------------------
(* Properties of frames and commands per device (DevSpec) *)

\* the frame carries the MAC address of a device of the collection
MatchesADevice(data) ==
  \E i \in 1..Len(dev.hvacs) : dev.hvacs[i].macAddress = data.mac_address

\* C36: a StateUpdate frame changes no device whose MAC address it does not carry,
\* and one that matches no device of the collection changes nothing and raises
\* neither the state-change callback nor the temperature callback.
C36_UnmatchedFrameIsNoOp ==
  [][\A data \in Frames :
       (out'.messages = 1 /\ isStateUpdate(data) /\ OnMessage(data))
       => /\ Len(dev'.hvacs) = Len(dev.hvacs)
          /\ \A i \in 1..Len(dev.hvacs) :
               dev.hvacs[i].macAddress # data.mac_address
               => dev'.hvacs[i] = dev.hvacs[i]
          /\ ~MatchesADevice(data)
             => /\ dev' = dev
                /\ out'.commandCallbacks = 0
                /\ out'.temperatureCallbacks = 0]_vars

\* C37: the oldPower of every command written to the socket is the power of the
\* device's commandState at the moment the command was built.
C37_OldPowerIsDevicePower ==
  [][(out'.sendResult = "resolved" /\ out'.hvac # 0)
     => out'.sent.oldPower = commandState(dev.hvacs[out'.hvac]).power]_vars

-----------------------------------------------------------------------------
(* Properties of overlapping subscribeToHVACs calls (OverlapSpec) *)

\* C35: the hvacs collection never holds two devices with the same MAC address.
C35_NoDuplicateDevices ==
  \A i, j \in 1..Len(dev.hvacs) :
    i # j => dev.hvacs[i].macAddress # dev.hvacs[j].macAddress

-----------------------------------------------------------------------------
(* Properties of the manager when every request answers (LiveSpec) *)

\* C33: every connect() call eventually settles, given that the solver, the login,
\* the directory and the socket answer.
C33_ConnectSettles ==
  \A id \in 1..MaxCalls :
    (\E c \in calls : c.id = id /\ c.kind = "connect")
      ~> (~\E c \in calls : c.id = id)

====
